---- MODULE Spec2Model ----
(***************************************************************************)
(* A model of gpuhunt's query/merge engine (gpuhunt/_internal/catalog.py)  *)
(* and of the live providers it fans out to (gpuhunt/providers/*.py).      *)
(*                                                                         *)
(* Prices are natural numbers (price units); Python's None is the empty    *)
(* tuple and a present value x is the one-element tuple <<x>>.             *)
(***************************************************************************)
EXTENDS Integers, Sequences, FiniteSets, Bags, TLC

\* ------------------------------------------------------------- bounds
\* Largest price a scraped page row may show.
MaxPrice == 2
\* Largest number of rows of a pricing table fetched during a query.
MaxRows == 1
\* Largest number of rows of a pricing table scraped by a direct get().
MaxTableRows == 2
\* Largest number of rows of the Crusoe pricing table.
MaxCrusoeRows == 1
\* Catalog versions the bucket may publish: 1..MaxVersion.
MaxVersion == 2
\* The clock advances at most this many times.
MaxTicks == 2
\* Largest number of add_provider calls.
MaxProviders == 2

\* ---------------------------------------------------------- constants
OFFLINE_PROVIDERS ==
    <<"aws", "azure", "datacrunch", "gcp", "lambdalabs", "oci", "runpod">>

ONLINE_PROVIDERS ==
    <<"cudo", "tensordock", "vastai", "oracle", "coreweave", "crusoe", "hyperstack">>

RELOAD_INTERVAL == 15 * 60

\* ThreadPoolExecutor(max_workers=8)
MAX_WORKERS == 8

\* ------------------------------------------------------------ helpers
None == <<>>

Some(x) == <<x>>

Range(s) == {s[i] : i \in DOMAIN s}

\* Sequences over S of length at most n.
SeqsUpTo(S, n) == UNION {[1..k -> S] : k \in 0..n}

\* str.lower() on the names that occur in the model.
Lower(s) ==
    CASE s = "AWS" -> "aws"
      [] s = "Hyperstack" -> "hyperstack"
      [] OTHER -> s

\* The orders a set can be iterated in.
Perms(S) ==
    {f \in [1..Cardinality(S) -> S] : \A i, j \in 1..Cardinality(S) : f[i] = f[j] => i = j}

\* sorted(offers, key=lambda x: x.price): a stable sort, here by insertion.
RECURSIVE InsertByPrice(_, _)
InsertByPrice(x, s) ==
    IF s = <<>> THEN <<x>>
    ELSE IF x.price < Head(s).price THEN <<x>> \o s
    ELSE <<Head(s)>> \o InsertByPrice(x, Tail(s))

RECURSIVE SortedByPrice(_)
SortedByPrice(s) ==
    IF s = <<>> THEN <<>>
    ELSE InsertByPrice(s[Len(s)], SortedByPrice(SubSeq(s, 1, Len(s) - 1)))

\* Non-decreasing by price.
IsSortedByPrice(s) == \A i \in 1..(Len(s) - 1) : s[i].price <= s[i + 1].price

\* ------------------------------------------------------ scraped pages
(* A scraped page is [status, rows].  status "ok" is a page whose pricing  *)
(* table was found; the other statuses are the ways a fetch or the table   *)
(* lookup ends early.  A row is [valid, gpu_name, price, cpu, memory]:     *)
(* valid = FALSE stands for a row the parser skips (too few cells, a       *)
(* missing element, text that does not parse, "Contact Us").  For Crusoe   *)
(* a row is [kind, gpu_name, prices] with prices the four price cells      *)
(* (on demand, 6 months, 1 year, 3 years), 0 for a cell _parse_price       *)
(* turns into 0.0.                                                         *)
RawItem(gpu_name, price, cpu, memory) ==
    [gpu_name |-> gpu_name, price |-> price, cpu |-> cpu, memory |-> memory]

SkippedRow == [valid |-> FALSE, gpu_name |-> "", price |-> 0, cpu |-> 0, memory |-> 0]

ParsedTableRows(gpus, cpus) ==
    {[valid |-> TRUE, gpu_name |-> g, price |-> p, cpu |-> c, memory |-> 64] :
        g \in gpus, p \in 1..MaxPrice, c \in cpus}

TablePages(statuses, rows, maxRows) ==
    {[status |-> st, rows |-> <<>>] : st \in statuses \ {"ok"}} \cup
    {[status |-> "ok", rows |-> r] : r \in SeqsUpTo(rows, maxRows)}

\* The items of the rows the parser keeps, in page order.
RECURSIVE ParsedRows(_)
ParsedRows(rows) ==
    IF rows = <<>> THEN <<>>
    ELSE (IF Head(rows).valid
          THEN <<RawItem(Head(rows).gpu_name, Head(rows).price,
                         Head(rows).cpu, Head(rows).memory)>>
          ELSE <<>>) \o ParsedRows(Tail(rows))

\* A provider's get() ends with a list or with an exception.
Returned(items) == [exc |-> "", items |-> items]

Raised(exc) == [exc |-> exc, items |-> <<>>]

\* CoreWeaveProvider.get: a failed request and a page without the table
\* section give []; the rows are appended in page order.
CoreWeaveStatuses == {"ok", "RequestException", "no_section"}

CoreWeaveGet(page) ==
    IF page.status = "RequestException" THEN Returned(<<>>)
    ELSE IF page.status = "no_section" THEN Returned(<<>>)
    ELSE Returned(ParsedRows(page.rows))

\* HyperstackProvider.get: as CoreWeave, but price_table.find('tbody') is
\* dereferenced outside any try block, so a table without a body raises.
HyperstackStatuses == {"ok", "RequestException", "no_table", "no_tbody"}

HyperstackGet(page) ==
    IF page.status = "RequestException" THEN Returned(<<>>)
    ELSE IF page.status = "no_table" THEN Returned(<<>>)
    ELSE IF page.status = "no_tbody" THEN Raised("AttributeError")
    ELSE Returned(ParsedRows(page.rows))

\* OracleCloudProvider.get: reads the latest rendered snapshot file; any
\* exception and a missing snapshot or table give [].
OracleStatuses == {"ok", "Exception", "no_snapshot", "no_table"}

OracleGet(page) ==
    IF page.status \in {"Exception", "no_snapshot", "no_table"} THEN Returned(<<>>)
    ELSE Returned(ParsedRows(page.rows))

\* CrusoeProvider._extract_cpu_count
ExtractCpuCount(gpu_name) ==
    CASE gpu_name = "H200" -> 96
      [] gpu_name = "H100" -> 96
      [] gpu_name = "MI300x" -> 96
      [] gpu_name = "A100" -> 48
      [] gpu_name = "L40S" -> 48
      [] gpu_name = "A40" -> 24
      [] OTHER -> 8

\* CrusoeProvider._extract_memory
ExtractMemory(gpu_name) ==
    CASE gpu_name = "H200" -> 2048
      [] gpu_name = "H100" -> 2048
      [] gpu_name = "MI300x" -> 2048
      [] gpu_name = "A100" -> 1024
      [] gpu_name = "L40S" -> 512
      [] gpu_name = "A40" -> 256
      [] OTHER -> 128

CrusoeItem(gpu_name, price) ==
    RawItem(gpu_name, price, ExtractCpuCount(gpu_name), ExtractMemory(gpu_name))

\* The reserved offers of one row: the cells whose price is positive.
RECURSIVE CrusoeReserved(_, _)
CrusoeReserved(gpu_name, cells) ==
    IF cells = <<>> THEN <<>>
    ELSE (IF Head(cells) > 0 THEN <<CrusoeItem(gpu_name, Head(cells))>> ELSE <<>>)
         \o CrusoeReserved(gpu_name, Tail(cells))

\* The loop over the pricing rows: a row with too few cells or without the
\* memory element is skipped, and so is a row whose on-demand price is 0.
RECURSIVE CrusoeOffers(_)
CrusoeOffers(rows) ==
    IF rows = <<>> THEN <<>>
    ELSE LET r == Head(rows)
         IN (IF r.kind = "ok" /\ r.prices[1] > 0
             THEN <<CrusoeItem(r.gpu_name, r.prices[1])>>
                  \o CrusoeReserved(r.gpu_name, Tail(r.prices))
             ELSE <<>>) \o CrusoeOffers(Tail(rows))

CrusoeRows(gpus) ==
    {[kind |-> k, gpu_name |-> "", prices |-> <<0, 0, 0, 0>>] : k \in {"skip", "broken"}} \cup
    {[kind |-> "ok", gpu_name |-> g, prices |-> ps] :
        g \in gpus, ps \in [1..4 -> 0..MaxPrice]}

CrusoePages(gpus, maxRows) ==
    {[status |-> st, rows |-> <<>>] : st \in {"RequestException", "no_section"}} \cup
    {[status |-> "ok", rows |-> r] : r \in SeqsUpTo(CrusoeRows(gpus), maxRows)}

\* CrusoeProvider.get: every exception gives []; a row whose name element
\* is missing ("broken") raises inside the loop and loses the whole list;
\* the offers are returned sorted by price.
CrusoeGet(page) ==
    IF page.status # "ok" THEN Returned(<<>>)
    ELSE IF \E i \in DOMAIN page.rows : page.rows[i].kind = "broken" THEN Returned(<<>>)
    ELSE Returned(SortedByPrice(CrusoeOffers(page.rows)))

\* provider.get() of the provider class whose NAME is name.
ProviderGet(name, page) ==
    CASE name = "coreweave" -> CoreWeaveGet(page)
      [] name = "hyperstack" -> HyperstackGet(page)
      [] name = "oracle" -> OracleGet(page)
      [] name = "crusoe" -> CrusoeGet(page)

\* ------------------------------------------------------- the snapshot
(* The catalog archive the bucket serves at a version: one <name>.csv per  *)
(* offline provider.  The bucket's content is an input of the program;     *)
(* here every even version lacks runpod.csv, aws.csv holds two rows (the   *)
(* first priced by the version, so that only version 1 is sorted by price) *)
(* and the other tables are empty.                                         *)
ArchiveHasCsv(version, name) == ~(version % 2 = 0 /\ name = "runpod")

ArchiveCsv(version, name) ==
    CASE name = "aws" -> <<RawItem("H100", version, 96, 64), RawItem("A100", 1, 48, 64)>>
      [] OTHER -> <<>>

\* ------------------------------------------------------------ matcher
\* CatalogItem(provider=provider_name, **asdict(i)) and
\* CatalogItem.from_dict(row, provider=provider_name)
CatalogItem(provider_name, i) ==
    [provider |-> provider_name, gpu_name |-> i.gpu_name, price |-> i.price,
     cpu |-> i.cpu, memory |-> i.memory]

RECURSIVE CatalogItems(_, _)
CatalogItems(provider_name, raw) ==
    IF raw = <<>> THEN <<>>
    ELSE <<CatalogItem(provider_name, Head(raw))>> \o CatalogItems(provider_name, Tail(raw))

\* An unset bound does not restrict; bounds are inclusive.
AtLeast(bound, x) == bound = None \/ bound[1] <= x

AtMost(bound, x) == bound = None \/ x <= bound[1]

\* constraints.matches(item, query_filter)
Matches(item, q) ==
    /\ q.provider = None
       \/ Lower(item.provider) \in {Lower(q.provider[1][k]) : k \in DOMAIN q.provider[1]}
    /\ AtLeast(q.min_cpu, item.cpu)
    /\ AtMost(q.max_cpu, item.cpu)
    /\ AtLeast(q.min_memory, item.memory)
    /\ AtLeast(q.min_price, item.price)
    /\ AtMost(q.max_price, item.price)

Matching(items, q) ==
    LET Keep(i) == Matches(i, q) IN SelectSeq(items, Keep)

\* -------------------------------------------------------------- state
VARIABLES
    catalog,        \* self.catalog: None or <<version of the archive held>>
    loaded_at,      \* self.loaded_at: None or <<time.monotonic() at the load>>
    providers,      \* self.providers: the NAMEs of the registered providers, in order
    auto_reload,    \* self.auto_reload
    online_only,    \* self._online_only
    balance_resources, \* self.balance_resources
    now,            \* time.monotonic()
    call,           \* the last call made and its arguments
    outcome,        \* how that call ended: [status, exc, items]
    log,            \* what that call did: [version_reads, downloads, load_invoked, load_exc, tasks, order]
    threads         \* the query and the load in progress, when calls run concurrently

vars == <<catalog, loaded_at, providers, auto_reload, online_only, balance_resources, now,
          call, outcome, log, threads>>

\* ----------------------------------------------------- the two tasks
(* A finished task is [kind, name, exc, items, raw, fetched, passed]: exc   *)
(* is the exception the future holds ("" for none), items the list it      *)
(* returns, raw the offers its source produced (get() results, table       *)
(* rows), fetched the number of provider.get() calls or table reads it     *)
(* made, and passed the arguments of its provider.get() calls.             *)
Task(kind, name, exc, items, raw, fetched) ==
    [kind |-> kind, name |-> name, exc |-> exc, items |-> items, raw |-> raw,
     fetched |-> fetched, passed |-> <<>>]

\* provider.get(query_filter=query_filter, balance_resources=self.balance_resources)
GetArgs(query_filter, balance) == [query_filter |-> query_filter, balance_resources |-> balance]

\* The loop of _get_online_provider_items over self.providers[k..]: acc is
\* the task so far, found the flag.
RECURSIVE OnlineLoop(_, _, _, _, _, _, _)
OnlineLoop(provider_name, query_filter, registry, site, k, acc, found) ==
    IF k > Len(registry)
    THEN IF found THEN acc
         ELSE [acc EXCEPT !.exc = "ValueError", !.items = <<>>]
    ELSE IF registry[k] # provider_name
    THEN OnlineLoop(provider_name, query_filter, registry, site, k + 1, acc, found)
    ELSE LET got == ProviderGet(registry[k], site[registry[k]])
             args == GetArgs(query_filter, balance_resources)
         IN IF got.exc # ""
            THEN [acc EXCEPT !.exc = got.exc, !.items = <<>>, !.fetched = @ + 1,
                             !.passed = Append(@, args)]
            ELSE OnlineLoop(provider_name, query_filter, registry, site, k + 1,
                            [acc EXCEPT
                               !.items = @ \o Matching(CatalogItems(provider_name, got.items),
                                                       query_filter),
                               !.raw = @ \o got.items,
                               !.fetched = @ + 1,
                               !.passed = Append(@, args)],
                            TRUE)

\* The same loop without the constraints.matches test: every offer is kept.
GetOnlineUnfiltered(provider_name, query_filter, registry, site) ==
    OnlineLoop(provider_name,
               [query_filter EXCEPT !.min_price = None, !.max_price = None,
                                    !.min_cpu = None, !.max_cpu = None,
                                    !.min_memory = None],
               registry, site, 1,
               Task("online", provider_name, "", <<>>, <<>>, 0), FALSE)

\* The same loop with the minimum cpu and memory bounds dropped from the
\* filter the providers are given.
GetOnlineLoosened(provider_name, query_filter, registry, site) ==
    OnlineLoop(provider_name,
               [query_filter EXCEPT !.min_cpu = None, !.min_memory = None],
               registry, site, 1,
               Task("online", provider_name, "", <<>>, <<>>, 0), FALSE)

\* Catalog._get_online_provider_items
GetOnlineProviderItems(provider_name, query_filter, registry, site) ==
    OnlineLoop(provider_name, query_filter, registry, site, 1,
               Task("online", provider_name, "", <<>>, <<>>, 0), FALSE)

\* Catalog._get_offline_provider_items, reading the snapshot cat.
GetOfflineProviderItems(provider_name, query_filter, cat) ==
    IF cat = None
    THEN Task("offline", provider_name, "", <<>>, <<>>, 0)
    ELSE IF ~ArchiveHasCsv(cat[1], provider_name)
    THEN Task("offline", provider_name, "KeyError", <<>>, <<>>, 1)
    ELSE Task("offline", provider_name, "",
              Matching(CatalogItems(provider_name, ArchiveCsv(cat[1], provider_name)),
                       query_filter),
              ArchiveCsv(cat[1], provider_name), 1)

\* -------------------------------------------------------------- merge
\* heapq.merge(*lists, key=price): the next item is the head with the least
\* (price, position of its list): ties go to the list passed first.
MergeNext(lists) ==
    CHOOSE i \in DOMAIN lists :
        /\ lists[i] # <<>>
        /\ \A j \in DOMAIN lists :
              lists[j] # <<>> =>
                 \/ Head(lists[i]).price < Head(lists[j]).price
                 \/ Head(lists[i]).price = Head(lists[j]).price /\ i <= j

\* itertools.chain(*lists): the lists one after the other, no merging.
RECURSIVE ChainLists(_)
ChainLists(lists) ==
    IF lists = <<>> THEN <<>> ELSE Head(lists) \o ChainLists(Tail(lists))

RECURSIVE HeapqMerge(_)
HeapqMerge(lists) ==
    IF \A i \in DOMAIN lists : lists[i] = <<>> THEN <<>>
    ELSE LET i == MergeNext(lists)
         IN <<Head(lists[i])>> \o HeapqMerge([lists EXCEPT ![i] = Tail(@)])

\* ------------------------------------------------------------- inputs
\* The provider classes an engine is given here.
ProviderClasses == {"hyperstack"}

\* The tables of n rows whose prices fall from row to row (a site that
\* lists its dearest gpu first).
FallingPages(rows, n) ==
    {[status |-> "ok", rows |-> r] :
        r \in {x \in [1..n -> rows] : \A i \in 1..(n - 1) : x[i].price > x[i + 1].price}}

\* The pages a provider's site may serve while a query runs: the table with
\* up to MaxRows rows that parse, the tables one row longer whose prices
\* fall, or (Hyperstack) a table without a body.
PagesOf(name) ==
    CASE name = "coreweave" ->
            TablePages({"ok"}, ParsedTableRows({"A100"}, {48}), MaxRows)
            \cup FallingPages(ParsedTableRows({"A100"}, {48}), MaxRows + 1)
      [] name = "hyperstack" ->
            TablePages({"ok", "no_tbody"}, ParsedTableRows({"A100"}, {48}), MaxRows)
            \cup FallingPages(ParsedTableRows({"A100"}, {48}), MaxRows + 1)

\* A page that is never read.
NoPage == [status |-> "ok", rows |-> <<>>]

\* What the sites serve while one query runs: a page per provider class
\* (the classes in names, which the query fetches).
SiteChoices(names) ==
    {site \in [ProviderClasses -> UNION {PagesOf(n) : n \in ProviderClasses} \cup {NoPage}] :
        \A n \in ProviderClasses :
            site[n] \in IF n \in names THEN PagesOf(n) ELSE {NoPage}}

\* The provider argument of query: None, one name, or a list of names.
ProviderArg(kind, names) == [kind |-> kind, names |-> names]

ProviderArgs ==
    {ProviderArg("None", <<>>), ProviderArg("str", <<"not-a-real-source">>)} \cup
    {ProviderArg("list", l) :
        l \in {<<"AWS", "hyperstack">>, <<"aws", "runpod">>, <<"hyperstack", "crusoe">>}}

\* The numeric bounds of query that are modelled: price, cpu and min_memory.
Bounds(min_price, max_price, min_cpu, max_cpu, min_memory) ==
    [min_price |-> min_price, max_price |-> max_price,
     min_cpu |-> min_cpu, max_cpu |-> max_cpu, min_memory |-> min_memory]

BoundArgs ==
    {Bounds(None, None, None, None, None),
     Bounds(Some(MaxPrice), None, None, Some(48), Some(64)),
     Bounds(Some(MaxPrice), Some(1), None, None, None)}

\* How the network behaves during one call: which request fails, and the
\* version the bucket serves.  "latest" is query's own version read,
\* "version" the read inside load, "open" the archive request and "read"
\* the reading of its body.
NetFailures == {"latest", "version", "open", "read"}

NetScripts ==
    {[fail |-> "none", version |-> v] : v \in 1..MaxVersion} \cup
    {[fail |-> f, version |-> 1] : f \in NetFailures}

\* ------------------------------------------------------------- loader
NoLog == [version_reads |-> 0, downloads |-> 0, load_invoked |-> FALSE, load_exc |-> "",
          tasks |-> <<>>, order |-> <<>>]

NoCall == [op |-> "none", provider |-> ProviderArg("None", <<>>),
           bounds |-> Bounds(None, None, None, None, None), version |-> None, page |-> NoPage]

NoOutcome == [status |-> "none", exc |-> "", items |-> <<>>]

(* No call in progress.  While a query runs, futures are the submitted     *)
(* futures, status[k] is "pending", "running" or "done", tasks[k] the      *)
(* finished task, read[k] the value of self.catalog the k-th task used,    *)
(* filter the query_filter and at_start the value of self.catalog when the *)
(* futures were submitted.  While load() runs in another thread, loader is *)
(* "opened" between its two assignments and loading the version it got.    *)
(* An offline task whose status is "opened" has built its ZipFile on the   *)
(* io.BytesIO object self.catalog named then: obj[k] is that object (the   *)
(* first task that opened it, 0 for none), cur the object self.catalog     *)
(* names now, and pos[o] where the one position of object o stands: at the *)
(* table of a source, or "" when it is at no table's start.                *)
NoThreads == [phase |-> "idle", futures |-> <<>>, status |-> <<>>, tasks |-> <<>>,
              read |-> <<>>, filter |-> None, at_start |-> None,
              loader |-> "idle", loading |-> None,
              obj |-> <<>>, pos |-> <<>>, cur |-> 0]

ReturnedItems(items) == [status |-> "returned", exc |-> "", items |-> items]

RaisedExc(exc) == [status |-> "raised", exc |-> exc, items |-> <<>>]

(* Catalog.load(version) under the network script net, from the loader     *)
(* state (cat, at): the exception it ends with ("" for none), the loader   *)
(* state it leaves, and the requests it made.  urlopen fails with          *)
(* URLError; a body that cannot be read to its end fails inside f.read(),  *)
(* after loaded_at was assigned, with an error that is not a URLError.     *)
LoadRun(version, net, cat, at) ==
    IF version = None /\ net.fail = "version"
    THEN [exc |-> "URLError", catalog |-> cat, loaded_at |-> at,
          version_reads |-> 1, downloads |-> 0]
    ELSE LET reads == IF version = None THEN 1 ELSE 0
             v == IF version = None THEN net.version ELSE version[1]
         IN IF net.fail = "open"
            THEN [exc |-> "URLError", catalog |-> cat, loaded_at |-> at,
                  version_reads |-> reads, downloads |-> 1]
            ELSE IF net.fail = "read"
            THEN [exc |-> "IncompleteRead", catalog |-> cat, loaded_at |-> Some(now),
                  version_reads |-> reads, downloads |-> 1]
            ELSE [exc |-> "", catalog |-> Some(v), loaded_at |-> Some(now),
                  version_reads |-> reads, downloads |-> 1]

\* The reload condition with the interval's end included (>= for >).
NeedsReloadAtInterval ==
    /\ ~online_only
    /\ auto_reload
    /\ (loaded_at = None \/ now - loaded_at[1] >= RELOAD_INTERVAL)

\* The reload condition without the test of _online_only.
NeedsReloadIgnoringMode ==
    /\ auto_reload
    /\ (loaded_at = None \/ now - loaded_at[1] > RELOAD_INTERVAL)

\* The condition of query's reload step.
NeedsReload ==
    /\ ~online_only
    /\ auto_reload
    /\ (loaded_at = None \/ now - loaded_at[1] > RELOAD_INTERVAL)

\* The reload step without its try/except: a failed request leaves query.
ReloadStepUnguarded(net) ==
    IF ~NeedsReload
    THEN [raised |-> "", catalog |-> catalog, loaded_at |-> loaded_at,
          online_only |-> online_only, version_reads |-> 0, downloads |-> 0,
          load_invoked |-> FALSE, load_exc |-> ""]
    ELSE IF net.fail = "latest"
    THEN [raised |-> "URLError", catalog |-> catalog, loaded_at |-> loaded_at,
          online_only |-> online_only, version_reads |-> 1, downloads |-> 0,
          load_invoked |-> FALSE, load_exc |-> ""]
    ELSE LET l == LoadRun(None, net, catalog, loaded_at)
         IN [raised |-> l.exc, catalog |-> l.catalog, loaded_at |-> l.loaded_at,
             online_only |-> online_only,
             version_reads |-> 1 + l.version_reads, downloads |-> l.downloads,
             load_invoked |-> TRUE, load_exc |-> l.exc]

(* The reload step of query: get_latest_version() and load() inside        *)
(* try/except (AttributeError, URLError).  raised is the exception that    *)
(* leaves query ("" for none).                                             *)
ReloadStep(net) ==
    IF ~NeedsReload
    THEN [raised |-> "", catalog |-> catalog, loaded_at |-> loaded_at,
          online_only |-> online_only, version_reads |-> 0, downloads |-> 0,
          load_invoked |-> FALSE, load_exc |-> ""]
    ELSE IF net.fail = "latest"
    THEN [raised |-> "", catalog |-> catalog, loaded_at |-> loaded_at,
          online_only |-> TRUE, version_reads |-> 1, downloads |-> 0,
          load_invoked |-> FALSE, load_exc |-> ""]
    ELSE LET l == LoadRun(None, net, catalog, loaded_at)
         IN [raised |-> IF l.exc = "URLError" THEN "" ELSE l.exc,
             catalog |-> l.catalog, loaded_at |-> l.loaded_at,
             online_only |-> IF l.exc = "URLError" THEN TRUE ELSE online_only,
             version_reads |-> 1 + l.version_reads, downloads |-> l.downloads,
             load_invoked |-> TRUE, load_exc |-> l.exc]

\* -------------------------------------------------------------- query
\* QueryFilter(provider=[provider] if isinstance(provider, str) else provider, ...)
QueryFilter(provider, bounds) ==
    [provider |-> IF provider.kind = "None" THEN None ELSE Some(provider.names),
     min_price |-> bounds.min_price, max_price |-> bounds.max_price,
     min_cpu |-> bounds.min_cpu, max_cpu |-> bounds.max_cpu,
     min_memory |-> bounds.min_memory]

\* valid_providers = set(p.lower() for p in OFFLINE_PROVIDERS + ONLINE_PROVIDERS)
ValidProviders == {Lower(p) : p \in Range(OFFLINE_PROVIDERS \o ONLINE_PROVIDERS)}

\* The loop that raises ValueError(f"Unknown provider: {p}").
HasUnknownProvider(names) == \E k \in DOMAIN names : Lower(names[k]) \notin ValidProviders

\* OFFLINE_PROVIDERS + list(set(p.NAME for p in self.providers if p.NAME in
\* ONLINE_PROVIDERS)); the order of the set's names is not observed: the
\* list is only tested for membership.
DefaultProviders(registry) ==
    LET live == Range(registry) \cap Range(ONLINE_PROVIDERS)
    IN OFFLINE_PROVIDERS \o (CHOOSE order \in Perms(live) : TRUE)

\* provider_name in map(str.lower, query_filter.provider)
IsSelected(provider_name, names) == provider_name \in {Lower(names[k]) : k \in DOMAIN names}

\* The futures in submission order: the selected names of ONLINE_PROVIDERS,
\* then, unless the engine is online-only, those of OFFLINE_PROVIDERS.
Submitted(names, onlineOnly) ==
    LET Sel(n) == IsSelected(n, names)
        Online(n) == [kind |-> "online", name |-> n]
        Offline(n) == [kind |-> "offline", name |-> n]
        on == SelectSeq(ONLINE_PROVIDERS, Sel)
        off == IF onlineOnly THEN <<>> ELSE SelectSeq(OFFLINE_PROVIDERS, Sel)
    IN [k \in DOMAIN on |-> Online(on[k])] \o [k \in DOMAIN off |-> Offline(off[k])]

\* Every submitted task run to its end (wait(futures) returns when all are done).
RunTasks(futures, query_filter, registry, site, cat) ==
    [k \in DOMAIN futures |->
        IF futures[k].kind = "online"
        THEN GetOnlineProviderItems(futures[k].name, query_filter, registry, site)
        ELSE GetOfflineProviderItems(futures[k].name, query_filter, cat)]

(* [f.result() for f in completed] and the merge.  completed is a set of   *)
(* futures, so its iteration order is any order: when futures failed, the  *)
(* first of them met raises, and it may be any of them; otherwise the      *)
(* lists are merged in that order.  order lists the futures with a         *)
(* non-empty result in iteration order (an empty list adds nothing to the  *)
(* merge wherever it stands).                                              *)
Failed(tasks) == {k \in DOMAIN tasks : tasks[k].exc # ""}

NonEmpty(tasks) == {k \in DOMAIN tasks : tasks[k].items # <<>>}

MergeInOrder(tasks, order) == HeapqMerge([k \in DOMAIN order |-> tasks[order[k]].items])

Collected(tasks) ==
    IF Failed(tasks) # {}
    THEN {[outcome |-> RaisedExc(tasks[k].exc), order |-> <<>>] : k \in Failed(tasks)}
    ELSE {[outcome |-> ReturnedItems(MergeInOrder(tasks, order)), order |-> order] :
             order \in Perms(NonEmpty(tasks))}

\* Catalog.query(provider=..., min_price=..., max_price=..., min_cpu=..., max_cpu=...)
Query(provider, bounds, net, site) ==
    \E r \in {ReloadStep(net)} :
    LET q == QueryFilter(provider, bounds)
        reloadLog == [NoLog EXCEPT !.version_reads = r.version_reads,
                                   !.downloads = r.downloads,
                                   !.load_invoked = r.load_invoked,
                                   !.load_exc = r.load_exc]
    IN /\ call' = [NoCall EXCEPT !.op = "query", !.provider = provider, !.bounds = bounds]
       /\ catalog' = r.catalog
       /\ loaded_at' = r.loaded_at
       /\ online_only' = r.online_only
       /\ UNCHANGED <<providers, auto_reload, balance_resources, now, threads>>
       /\ IF r.raised # ""
          THEN outcome' = RaisedExc(r.raised) /\ log' = reloadLog
          ELSE IF q.provider # None /\ HasUnknownProvider(q.provider[1])
          THEN outcome' = RaisedExc("ValueError") /\ log' = reloadLog
          ELSE LET names == IF q.provider # None THEN q.provider[1]
                            ELSE DefaultProviders(providers)
                   filter == [q EXCEPT !.provider = Some(names)]
               IN \E tasks \in {RunTasks(Submitted(names, r.online_only), filter,
                                         providers, site, r.catalog)} :
                  \E c \in Collected(tasks) :
                     /\ outcome' = c.outcome
                     /\ log' = [reloadLog EXCEPT !.tasks = tasks, !.order = c.order]

\* Catalog.load(version)
Load(version, net) ==
    LET l == LoadRun(version, net, catalog, loaded_at)
    IN /\ call' = [NoCall EXCEPT !.op = "load", !.version = version]
       /\ catalog' = l.catalog
       /\ loaded_at' = l.loaded_at
       /\ outcome' = IF l.exc = "" THEN ReturnedItems(<<>>) ELSE RaisedExc(l.exc)
       /\ log' = [NoLog EXCEPT !.version_reads = l.version_reads,
                               !.downloads = l.downloads, !.load_invoked = TRUE,
                               !.load_exc = l.exc]
       /\ UNCHANGED <<providers, auto_reload, online_only, balance_resources, now, threads>>

\* Catalog.add_provider(provider)
AddProvider(name) ==
    /\ Len(providers) < MaxProviders
    /\ providers' = Append(providers, name)
    /\ call' = [NoCall EXCEPT !.op = "add_provider", !.provider = ProviderArg("str", <<name>>)]
    /\ outcome' = ReturnedItems(<<>>)
    /\ log' = NoLog
    /\ UNCHANGED <<catalog, loaded_at, auto_reload, online_only, balance_resources, now, threads>>

\* The monotonic clock advances by one reload interval.
Tick ==
    /\ now < MaxTicks * RELOAD_INTERVAL
    /\ now' = now + RELOAD_INTERVAL
    /\ UNCHANGED <<catalog, loaded_at, providers, auto_reload, online_only, balance_resources,
                 call, outcome, log, threads>>

\* The balance_resources argument of the engines built here: the default.
BalanceArgs == {TRUE}

\* Catalog(balance_resources, auto_reload)
Init ==
    /\ catalog = None
    /\ loaded_at = None
    /\ providers = <<>>
    /\ balance_resources \in BalanceArgs
    /\ auto_reload \in BOOLEAN
    /\ online_only = FALSE
    /\ now = 0
    /\ call = NoCall
    /\ outcome = NoOutcome
    /\ log = NoLog
    /\ threads = NoThreads

\* The names a query with this provider argument selects, if it gets that far.
SelectedNames(provider) ==
    IF provider.kind = "None" THEN Range(DefaultProviders(providers))
    ELSE {Lower(provider.names[k]) : k \in DOMAIN provider.names}

QueryCall ==
    \E provider \in ProviderArgs, bounds \in BoundArgs :
    \E net \in IF NeedsReload THEN NetScripts ELSE {[fail |-> "none", version |-> 1]} :
    \E site \in SiteChoices(SelectedNames(provider) \cap Range(providers)) :
        Query(provider, bounds, net, site)

LoadCall ==
    \/ \E net \in {n \in NetScripts : n.fail # "latest"} : Load(None, net)
    \/ \E v \in 1..MaxVersion, fail \in {"none", "open", "read"} :
          Load(Some(v), [fail |-> fail, version |-> v])

AddProviderCall == \E name \in ProviderClasses : AddProvider(name)

Next == QueryCall \/ LoadCall \/ AddProviderCall \/ Tick

Spec == Init /\ [][Next]_vars

\* ------------------------------------------------- providers on their own
(* python3 -m gpuhunt <provider>: offers = provider.get(), outside any     *)
(* catalog.  The page is whatever the site serves: rows that parse, rows   *)
(* the parser skips, and the ways the fetch or the table lookup fails.     *)
\* The gpu names a row of the Crusoe table may show.
CrusoeGpuNames == {"H200", "H100", "MI300X", "MI300x", "A100", "L40S", "A40", "B200"}

ScrapedPages(name) ==
    CASE name = "coreweave" ->
            TablePages(CoreWeaveStatuses,
                       {SkippedRow} \cup ParsedTableRows({"A100"}, {48, 96}), MaxTableRows)
      [] name = "hyperstack" ->
            TablePages(HyperstackStatuses,
                       {SkippedRow} \cup ParsedTableRows({"A100"}, {48, 96}), MaxTableRows)
      [] name = "oracle" ->
            TablePages(OracleStatuses,
                       {SkippedRow} \cup ParsedTableRows({"A100"}, {48, 96}), MaxTableRows)
      [] name = "crusoe" -> CrusoePages(CrusoeGpuNames, MaxCrusoeRows)

Get(name, page) ==
    \E got \in {ProviderGet(name, page)} :
        /\ call' = [NoCall EXCEPT !.op = "get", !.provider = ProviderArg("str", <<name>>),
                                  !.page = page]
        /\ outcome' = IF got.exc = "" THEN ReturnedItems(got.items) ELSE RaisedExc(got.exc)
        /\ log' = NoLog
        /\ UNCHANGED <<catalog, loaded_at, providers, auto_reload, online_only,
                     balance_resources, now, threads>>

GetCall ==
    \E name \in {"coreweave", "hyperstack", "oracle", "crusoe"} :
    \E page \in ScrapedPages(name) :
        Get(name, page)

SpecProviders == Init /\ [][GetCall]_vars

\* ------------------------------------------------ calls that run concurrently
(* The same engine with the steps of a query's worker threads, and of a    *)
(* load() in another thread, interleaved.  The query thread runs query up  *)
(* to the submission of its futures in one step (BeginQuery); the pool's   *)
(* workers take the futures from the queue in submission order, at most    *)
(* MAX_WORKERS at a time; wait(futures) returns when all are done          *)
(* (EndQuery).                                                             *)
ThreadProviderArgs ==
    {ProviderArg("str", <<"not-a-real-source">>)} \cup
    {ProviderArg("list", l) :
        l \in {<<"aws", "AWS", "runpod">>, ONLINE_PROVIDERS \o <<"aws", "runpod">>}}

\* query, from its first line to the last executor.submit(...)
BeginQuery(provider, bounds, net) ==
    /\ threads.phase = "idle"
    /\ \E r \in {ReloadStep(net)} :
       LET q == QueryFilter(provider, bounds)
           reloadLog == [NoLog EXCEPT !.version_reads = r.version_reads,
                                      !.downloads = r.downloads,
                                      !.load_invoked = r.load_invoked,
                                      !.load_exc = r.load_exc]
       IN /\ call' = [NoCall EXCEPT !.op = "query", !.provider = provider, !.bounds = bounds]
          /\ catalog' = r.catalog
          /\ loaded_at' = r.loaded_at
          /\ online_only' = r.online_only
          /\ log' = reloadLog
          /\ UNCHANGED <<providers, auto_reload, balance_resources, now>>
          /\ IF r.raised # ""
             THEN outcome' = RaisedExc(r.raised) /\ UNCHANGED threads
             ELSE IF q.provider # None /\ HasUnknownProvider(q.provider[1])
             THEN outcome' = RaisedExc("ValueError") /\ UNCHANGED threads
             ELSE LET names == IF q.provider # None THEN q.provider[1]
                               ELSE DefaultProviders(providers)
                      futures == Submitted(names, r.online_only)
                  IN /\ outcome' = [NoOutcome EXCEPT !.status = "running"]
                     /\ threads' =
                           [threads EXCEPT
                              !.phase = "running",
                              !.futures = futures,
                              !.status = [k \in DOMAIN futures |-> "pending"],
                              !.tasks = [k \in DOMAIN futures |->
                                            Task(futures[k].kind, futures[k].name,
                                                 "", <<>>, <<>>, 0)],
                              !.read = [k \in DOMAIN futures |-> None],
                              !.obj = [k \in DOMAIN futures |-> 0],
                              !.pos = [k \in DOMAIN futures |-> ""],
                              !.cur = 0,
                              !.filter = Some([q EXCEPT !.provider = Some(names)]),
                              !.at_start = r.catalog]

\* The futures a worker thread is executing.
Running == {k \in DOMAIN threads.status : threads.status[k] = "running"}

\* A worker takes the next future from the queue without regard to how many
\* are executing already.
StartTaskUnbounded(k) ==
    /\ threads.phase = "running"
    /\ k \in DOMAIN threads.status
    /\ threads.status[k] = "pending"
    /\ \A j \in 1..(k - 1) : threads.status[j] # "pending"
    /\ threads' = [threads EXCEPT !.status[k] = "running"]
    /\ UNCHANGED <<catalog, loaded_at, providers, auto_reload, online_only,
                   balance_resources, now, call, outcome, log>>

\* A worker of the pool takes the next future from the queue: there are at
\* most MAX_WORKERS workers and each executes one future at a time.
StartTask(k) ==
    /\ threads.phase = "running"
    /\ k \in DOMAIN threads.status
    /\ threads.status[k] = "pending"
    /\ \A j \in 1..(k - 1) : threads.status[j] # "pending"
    /\ Cardinality(Running) < MAX_WORKERS
    /\ threads' = [threads EXCEPT !.status[k] = "running"]
    /\ UNCHANGED <<catalog, loaded_at, providers, auto_reload, online_only,
                   balance_resources, now, call, outcome, log>>

\* The worker runs an online task to the end: _get_online_provider_items
\* with the registry as it is now.
FinishTask(k, site) ==
    /\ threads.phase = "running"
    /\ k \in DOMAIN threads.status
    /\ threads.status[k] = "running"
    /\ threads.futures[k].kind = "online"
    /\ threads' =
          [threads EXCEPT
             !.status[k] = "done",
             !.tasks[k] = GetOnlineProviderItems(threads.futures[k].name,
                                                 threads.filter[1], providers, site)]
    /\ UNCHANGED <<catalog, loaded_at, providers, auto_reload, online_only,
                   balance_resources, now, call, outcome, log>>

\* _get_offline_provider_items up to zip_file.open(f"{provider_name}.csv"):
\* with no snapshot the task returns [], with no such table it raises
\* KeyError; otherwise the ZipFile is built on the object self.catalog names
\* now, which every other task that opened it shares, and that object's
\* position is moved to the table.
OpenTable(k) ==
    /\ threads.phase = "running"
    /\ k \in DOMAIN threads.status
    /\ threads.status[k] = "running"
    /\ threads.futures[k].kind = "offline"
    /\ LET name == threads.futures[k].name
           o == IF threads.cur = 0 THEN k ELSE threads.cur
       IN threads' =
             IF catalog = None \/ ~ArchiveHasCsv(catalog[1], name)
             THEN [threads EXCEPT
                     !.status[k] = "done",
                     !.read[k] = catalog,
                     !.tasks[k] = GetOfflineProviderItems(name, threads.filter[1], catalog)]
             ELSE [threads EXCEPT
                     !.status[k] = "opened",
                     !.read[k] = catalog,
                     !.obj[k] = o,
                     !.cur = o,
                     !.pos[o] = name]
    /\ UNCHANGED <<catalog, loaded_at, providers, auto_reload, online_only,
                   balance_resources, now, call, outcome, log>>

\* The rest of _get_offline_provider_items: the rows are read from where the
\* object's position stands.  The ZipFile's lock is its own, so another task's
\* ZipFile on the same object may have moved the position since this task
\* set it; the bytes read then are not this table's and the archive reader
\* raises BadZipFile.
ReadTable(k) ==
    /\ threads.phase = "running"
    /\ k \in DOMAIN threads.status
    /\ threads.status[k] = "opened"
    /\ LET name == threads.futures[k].name
           o == threads.obj[k]
       IN threads' =
             [threads EXCEPT
                !.status[k] = "done",
                !.obj[k] = 0,
                !.pos[o] = "",
                !.tasks[k] =
                   IF threads.pos[o] = name
                   THEN GetOfflineProviderItems(name, threads.filter[1], threads.read[k])
                   ELSE Task("offline", name, "BadZipFile", <<>>, <<>>, 1)]
    /\ UNCHANGED <<catalog, loaded_at, providers, auto_reload, online_only,
                   balance_resources, now, call, outcome, log>>

\* wait(futures) returns; the results are collected and merged.
EndQuery ==
    /\ threads.phase = "running"
    /\ \A k \in DOMAIN threads.status : threads.status[k] = "done"
    /\ \E c \in Collected(threads.tasks) :
          /\ outcome' = c.outcome
          /\ log' = [log EXCEPT !.tasks = threads.tasks, !.order = c.order]
    /\ threads' = [threads EXCEPT !.phase = "idle"]
    /\ UNCHANGED <<catalog, loaded_at, providers, auto_reload, online_only,
                   balance_resources, now, call>>

\* load() in another thread, up to self.loaded_at = time.monotonic(): the
\* version is read if none is given and the archive is requested; a failed
\* request raises to that thread's caller and changes nothing.
LoadOpen(version) ==
    /\ threads.loader = "idle"
    /\ loaded_at' = Some(now)
    /\ threads' = [threads EXCEPT !.loader = "opened", !.loading = Some(version)]
    /\ UNCHANGED <<catalog, providers, auto_reload, online_only, balance_resources, now,
                   call, outcome, log>>

\* self.catalog = io.BytesIO(f.read()): the body is read, then the name is
\* bound to the finished buffer, a new object no task has opened; a failed
\* read leaves self.catalog alone.
LoadStore(ok) ==
    /\ threads.loader = "opened"
    /\ catalog' = IF ok THEN threads.loading ELSE catalog
    /\ threads' = [threads EXCEPT !.loader = "idle", !.loading = None,
                                  !.cur = IF ok THEN 0 ELSE threads.cur]
    /\ UNCHANGED <<loaded_at, providers, auto_reload, online_only, balance_resources, now,
                   call, outcome, log>>

BeginQueryCall ==
    \E provider \in ThreadProviderArgs :
    \E net \in IF NeedsReload THEN NetScripts ELSE {[fail |-> "none", version |-> 1]} :
        BeginQuery(provider, Bounds(None, None, None, None, None), net)

StartTaskCall == \E k \in DOMAIN threads.status : StartTask(k)

FinishTaskCall ==
    \E k \in DOMAIN threads.status :
    \E site \in SiteChoices({threads.futures[k].name} \cap Range(providers)) :
        FinishTask(k, site)

OpenTableCall == \E k \in DOMAIN threads.status : OpenTable(k)

ReadTableCall == \E k \in DOMAIN threads.status : ReadTable(k)

LoadOpenCall == \E version \in 1..MaxVersion : LoadOpen(version)

LoadStoreCall == \E ok \in BOOLEAN : LoadStore(ok)

NextThreads ==
    \/ BeginQueryCall
    \/ StartTaskCall
    \/ FinishTaskCall
    \/ OpenTableCall
    \/ ReadTableCall
    \/ EndQuery
    \/ LoadOpenCall
    \/ LoadStoreCall

SpecThreads == Init /\ [][NextThreads]_vars

\* ----------------------------------------------------------- properties
\* The last call was a query that returned a list.
QueryReturned == call.op = "query" /\ outcome.status = "returned"

\* Every list a source's task handed to the merge is sorted by price.
SourceListsSorted == \A k \in DOMAIN log.tasks : IsSortedByPrice(log.tasks[k].items)

\* C1: when every per-source list is sorted by ascending price, the list a
\* query returns is sorted by ascending price, in whatever order the tasks
\* completed.
MergedOutputSorted ==
    (QueryReturned /\ SourceListsSorted) => IsSortedByPrice(outcome.items)

\* Two sources gave sorted, non-empty lists, the future submitted later was
\* collected first, and the merged list has a price step in it.
MergedOutputSortedWitness ==
    /\ QueryReturned
    /\ SourceListsSorted
    /\ Len(log.order) >= 2
    /\ log.order[1] > log.order[2]
    /\ \E i \in 1..(Len(outcome.items) - 1) :
          outcome.items[i].price < outcome.items[i + 1].price

\* Exactly one task of the last query failed, with an error of its source.
OneSourceFailed ==
    /\ call.op = "query"
    /\ Cardinality(Failed(log.tasks)) = 1
    /\ \A k \in Failed(log.tasks) : log.tasks[k].exc # "ValueError"

\* C2: when the task of one selected source fails with an exception, the
\* query still returns, with the offers of the other sources and none of
\* the failed one.
FailureIsolated ==
    OneSourceFailed =>
        /\ outcome.status = "returned"
        /\ Range(outcome.items) =
              UNION {Range(log.tasks[k].items) : k \in DOMAIN log.tasks \ Failed(log.tasks)}

\* C3: a query that names a source outside the valid names always fails
\* with a ValueError, whatever else it asks for.
UnknownProviderRejected ==
    (/\ call.op = "query"
     /\ call.provider.kind # "None"
     /\ HasUnknownProvider(call.provider.names))
    => outcome = RaisedExc("ValueError")

\* A bound pair whose minimum exceeds its maximum.
Malformed(b) ==
    \/ b.min_price # None /\ b.max_price # None /\ b.min_price[1] > b.max_price[1]
    \/ b.min_cpu # None /\ b.max_cpu # None /\ b.min_cpu[1] > b.max_cpu[1]

\* C4: a query with a bound pair whose minimum exceeds its maximum fails
\* with a validation error before any task is dispatched.
MalformedBoundsRejected ==
    (call.op = "query" /\ Malformed(call.bounds))
    => (outcome = RaisedExc("ValueError") /\ log.tasks = <<>>)

\* The last call was a query, restricted to offline sources, during which a
\* read of the latest version failed, on an engine that holds no snapshot.
OfflineQueryWithoutSnapshot ==
    /\ call.op = "query"
    /\ call.provider.kind # "None"
    /\ \A k \in DOMAIN call.provider.names :
          Lower(call.provider.names[k]) \in Range(OFFLINE_PROVIDERS)
    /\ log.version_reads >= 1
    /\ log.downloads = 0
    /\ catalog = None
    /\ loaded_at = None

\* C5: on an engine whose snapshot was never loaded, a query during which
\* the version read fails leaves the engine online-only, and, restricted to
\* offline sources, returns the empty list.
OfflineQueryFallsBackEmpty ==
    OfflineQueryWithoutSnapshot => (online_only /\ outcome = ReturnedItems(<<>>))

\* Such a query happened, its version read having failed inside load().
OfflineQueryFallsBackEmptyWitness ==
    OfflineQueryWithoutSnapshot /\ log.load_invoked /\ log.version_reads = 2

\* The names the last query selected and the filter its tasks applied.
CallNames ==
    IF call.provider.kind = "None" THEN DefaultProviders(providers) ELSE call.provider.names

CallFilter == [QueryFilter(call.provider, call.bounds) EXCEPT !.provider = Some(CallNames)]

\* The number of times x occurs in s.
Count(x, s) == Cardinality({i \in DOMAIN s : s[i] = x})

\* The sources a query reads: the selected live sources and, unless the
\* engine is online-only, the selected offline ones.
SourcesRead ==
    {n \in {Lower(CallNames[k]) : k \in DOMAIN CallNames} :
        \/ n \in Range(ONLINE_PROVIDERS)
        \/ n \in Range(OFFLINE_PROVIDERS) /\ ~online_only}

\* C6: the list a query returns holds exactly the offers its selected
\* sources produced that satisfy the matcher, each as often as its source
\* produced it and tagged with its source's name.
ResultIsMatchingOffers ==
    QueryReturned =>
        /\ {log.tasks[k].name : k \in DOMAIN log.tasks} = SourcesRead
        /\ \A i \in DOMAIN outcome.items :
              /\ Matches(outcome.items[i], CallFilter)
              /\ \E k \in DOMAIN log.tasks :
                    /\ log.tasks[k].name = outcome.items[i].provider
                    /\ Count(outcome.items[i], outcome.items) =
                          Count(outcome.items[i],
                                CatalogItems(log.tasks[k].name, log.tasks[k].raw))
        /\ \A k \in DOMAIN log.tasks :
           \A j \in DOMAIN log.tasks[k].raw :
              \E x \in {CatalogItem(log.tasks[k].name, log.tasks[k].raw[j])} :
                 Matches(x, CallFilter) =>
                    Count(x, outcome.items) =
                       Count(x, CatalogItems(log.tasks[k].name, log.tasks[k].raw))

\* A query returned offers while two sources produced offers and one of
\* the offers produced fails the filter.
ResultIsMatchingOffersWitness ==
    /\ QueryReturned
    /\ outcome.items # <<>>
    /\ Cardinality({k \in DOMAIN log.tasks : log.tasks[k].raw # <<>>}) >= 2
    /\ \E k \in DOMAIN log.tasks :
       \E j \in DOMAIN log.tasks[k].raw :
          ~Matches(CatalogItem(log.tasks[k].name, log.tasks[k].raw[j]), CallFilter)

\* C7: the list a live provider's get() returns is sorted by ascending
\* price.
LiveGetSorted ==
    (call.op = "get" /\ outcome.status = "returned") => IsSortedByPrice(outcome.items)

\* Some requested name is a known live source that is not registered.
UnregisteredLive(names) ==
    \E k \in DOMAIN names :
        /\ Lower(names[k]) \in Range(ONLINE_PROVIDERS)
        /\ Lower(names[k]) \notin Range(providers)

\* C8: a query that requests a known live source no registered provider
\* serves, and gets as far as running its tasks, fails with a ValueError.
UnregisteredLiveRejected ==
    (/\ call.op = "query"
     /\ call.provider.kind # "None"
     /\ ~HasUnknownProvider(call.provider.names)
     /\ UnregisteredLive(call.provider.names)
     /\ log.tasks # <<>>)
    => outcome = RaisedExc("ValueError")

\* C9: a query that fails with a validation error has fetched from no live
\* source and read no snapshot table.
ValidationErrorTouchesNoSource ==
    (call.op = "query" /\ outcome = RaisedExc("ValueError"))
    => \A k \in DOMAIN log.tasks : log.tasks[k].fetched = 0

\* The step is a query (the clock stands still while a call is made).
QueryStep == call'.op = "query" /\ now' = now

OnlineOnlyNeverReloads ==
    [][online_only =>
          /\ online_only'
          /\ QueryStep =>
                (/\ log'.version_reads = 0
                 /\ log'.downloads = 0
                 /\ ~log'.load_invoked)]_vars

\* A query ran on an online-only engine after the clock had run to its end,
\* and asked the bucket nothing (so the engine was online-only before it).
OnlineOnlyNeverReloadsWitness ==
    /\ call.op = "query"
    /\ online_only
    /\ auto_reload
    /\ log.version_reads = 0
    /\ now = MaxTicks * RELOAD_INTERVAL
    /\ (loaded_at = None \/ now - loaded_at[1] > RELOAD_INTERVAL)

\* C12: after a load() that succeeded, from any state, the engine holds the
\* archive of the version asked for, loaded_at is set and the engine is not
\* online-only.
LoadSuccessIsFresh ==
    (call.op = "load" /\ outcome.status = "returned")
    => (/\ catalog # None
        /\ call.version # None => catalog = call.version
        /\ loaded_at # None
        /\ ~online_only)

\* The step ran load(), from load() itself or from a query, and a request
\* of load (the version read or the archive request) failed.
LoadFailedStep == now' = now /\ log'.load_invoked /\ log'.load_exc = "URLError"

\* C13: when load() fails on the network, the engine becomes online-only
\* and the snapshot it held (or its absence) is unchanged.
LoadFailureFallsBack ==
    [][LoadFailedStep => (online_only' /\ catalog' = catalog)]_vars

\* The bound passed is at least the caller's: an unset caller bound allows
\* any value, a set one must be met by a set, not smaller, bound.
Tightened(passed, supplied) ==
    supplied = None \/ (passed # None /\ passed[1] >= supplied[1])

ExpectedRatios(gpu_name) ==
    CASE gpu_name \in {"H200", "H100", "MI300X"} -> <<96, 2048>>
      [] gpu_name = "A100" -> <<48, 1024>>
      [] gpu_name = "L40S" -> <<48, 512>>
      [] gpu_name = "A40" -> <<24, 256>>

\* C15: every Crusoe offer whose gpu is H200, H100, MI300X, A100, L40S or
\* A40 has the cpu count and system memory fixed for that gpu.
CrusoeRatiosFixed ==
    (call.op = "get" /\ call.provider.names = <<"crusoe">>) =>
        \A i \in DOMAIN outcome.items :
            outcome.items[i].gpu_name \in {"H200", "H100", "MI300X", "A100", "L40S", "A40"}
            => <<outcome.items[i].cpu, outcome.items[i].memory>>
                   = ExpectedRatios(outcome.items[i].gpu_name)

\* C16: every offline task of a query reads the snapshot that was held when
\* the query submitted its tasks, whatever load() calls run meanwhile.
OneSnapshotPerQuery ==
    \A k \in DOMAIN threads.status :
        (threads.status[k] = "done" /\ threads.futures[k].kind = "offline")
        => threads.read[k] = threads.at_start

LiveQuerySkipsReload ==
    (/\ call.op = "query"
     /\ call.provider.kind # "None"
     /\ \A k \in DOMAIN call.provider.names :
           Lower(call.provider.names[k]) \in Range(ONLINE_PROVIDERS))
    => (log.version_reads = 0 /\ log.downloads = 0 /\ ~log.load_invoked)

\* The offers of s that carry the source name n, in the order of s.
OffersOf(n, s) == LET From(x) == x.provider = n IN SelectSeq(s, From)

\* The place of the list of source n among the lists passed to the merge.
PlaceOf(n) == CHOOSE k \in DOMAIN log.order : log.tasks[log.order[k]].name = n

\* C19: in the list a query returns, offers of equal price from different
\* sources stand in the order their sources' lists were passed to the
\* merge, and the offers of one source keep that source's order (stated
\* here for snapshots whose tables are sorted by price).
TiesKeepMergeOrder ==
    (/\ QueryReturned
     /\ \A k \in DOMAIN log.tasks :
           log.tasks[k].kind = "offline" => IsSortedByPrice(log.tasks[k].items))
    => /\ \A k \in DOMAIN log.tasks :
             OffersOf(log.tasks[k].name, outcome.items) = log.tasks[k].items
       /\ \A i, j \in DOMAIN outcome.items :
             (/\ i < j
              /\ outcome.items[i].price = outcome.items[j].price
              /\ outcome.items[i].provider # outcome.items[j].provider)
             => PlaceOf(outcome.items[i].provider) < PlaceOf(outcome.items[j].provider)

\* C20: the list a query returns is the only list it can return for the
\* results its tasks produced, in whatever order the futures are collected.
ResultIndependentOfSchedule ==
    QueryReturned => \A c \in Collected(log.tasks) : c.outcome = outcome

\* C21: a query fetches each selected live source once, however many
\* providers were registered under its name, so no task's list is the
\* concatenation of several fetches.
RegistryIsMapping ==
    call.op = "query" =>
        \A k \in DOMAIN log.tasks :
            log.tasks[k].kind = "online" =>
                /\ log.tasks[k].fetched <= 1
                /\ Len(log.tasks[k].passed) <= 1

\* C22: in every state of the loader, also while load() is in progress and
\* after a load() whose download failed, loaded_at is set only if a
\* snapshot is held.
LoadedAtImpliesSnapshot == loaded_at # None => catalog # None

\* An offline task of the running query that read the rows of a table.
ReadRows(k) ==
    /\ threads.futures[k].kind = "offline"
    /\ threads.status[k] = "done"
    /\ threads.read[k] # None

\* C23: under every interleaving, an offline task that has finished holds
\* what _get_offline_provider_items gives for its own source alone on the
\* snapshot it opened: the tasks do not interfere through the shared
\* archive object.
OfflineTasksIsolated ==
    \A k \in DOMAIN threads.status :
        ReadRows(k) =>
            threads.tasks[k] = GetOfflineProviderItems(threads.futures[k].name,
                                                       threads.filter[1], threads.read[k])

====
